---- MODULE Spec2Model ----
(***************************************************************************)
(* A model of rasterh3: the multi-resolution cell coverage container       *)
(* (src/src/coverage.rs), the sparse region finder and the raster to H3    *)
(* conversion pipeline (src/src/array.rs) and the antimeridian splitter    *)
(* (src/src/util.rs).                                                      *)
(*                                                                         *)
(* The H3 grid of the h3o crate is replaced by a small hierarchical grid:  *)
(* NumRes resolutions instead of 16, Branch children per cell instead of   *)
(* 7, NumBase base cells instead of 122.  A cell is the sequence           *)
(* <<base, d1, ..., dr>> of its base cell number and its r child digits.   *)
(***************************************************************************)
EXTENDS Integers, Sequences, FiniteSets, TLC

(***************************************************************************)
(* Bounds of the model                                                     *)
(***************************************************************************)
NumRes == 3
Branch == 2
MaxInserts == 3
MaxElems == 9

(***************************************************************************)
(* The grid: 360 degrees of longitude in NumBaseCols base cells per row    *)
(***************************************************************************)
NumBaseCols == 6
NumBaseRows == 12
NumBase == NumBaseCols * NumBaseRows

Resolutions == 0 .. (NumRes - 1)
Digits == 0 .. (Branch - 1)

RECURSIVE Pow(_, _)
Pow(b, e) == IF e = 0 THEN 1 ELSE b * Pow(b, e - 1)

Range(s) == { s[i] : i \in 1 .. Len(s) }

RECURSIVE Flatten(_)
Flatten(ss) == IF ss = <<>> THEN <<>> ELSE Head(ss) \o Flatten(Tail(ss))

\* the cells of resolution r in the order of their index: by base cell, then
\* by child digits
RECURSIVE CellSeqAt(_)
CellSeqAt(r) ==
    IF r = 0 THEN [i \in 1 .. NumBase |-> <<i - 1>>]
    ELSE LET coarser == CellSeqAt(r - 1)
         IN  [k \in 1 .. Len(coarser) * Branch |->
                 Append(coarser[((k - 1) \div Branch) + 1], (k - 1) % Branch)]

\* the cells of every resolution, computed once
CellSeqOfRes == [r \in Resolutions |-> CellSeqAt(r)] @@ <<>>

CellsAt(r) == Range(CellSeqOfRes[r])

CellsOfRes == [r \in Resolutions |-> CellsAt(r)] @@ <<>>

AllCells == UNION { CellsOfRes[r] : r \in Resolutions }

\* Option::None of a cell
NoCell == <<>>

\* CellIndex::resolution
resolution(cell) == Len(cell) - 1

\* CellIndex::parent(res): the cell itself at its own resolution, None for a
\* finer resolution
parent(cell, res) ==
    IF res <= resolution(cell) THEN SubSeq(cell, 1, res + 1) ELSE NoCell

\* CellIndex::children(res): the descendants at resolution res, the cell
\* itself at its own resolution, nothing at a coarser resolution
children(cell, res) ==
    IF res < resolution(cell) THEN {}
    ELSE { cell \o digits : digits \in [1 .. (res - resolution(cell)) -> Digits] }

\* the child digits of a cell read as a number of base Branch
RECURSIVE DigitsValue(_, _)
DigitsValue(cell, n) ==
    IF n <= 1 THEN 0 ELSE DigitsValue(cell, n - 1) * Branch + cell[n]

\* a < b on two cell indexes (Ord on the 64 bit index, where the resolution
\* bits are more significant than the base cell bits, which are more
\* significant than the child digits)
CellLess(a, b) ==
    \/ Len(a) < Len(b)
    \/ /\ Len(a) = Len(b)
       /\ \E i \in 1 .. Len(a) :
              a[i] < b[i] /\ \A j \in 1 .. (i - 1) : a[j] = b[j]

\* a sort that leaves the vector as it is
VecNoSort(v) == v

\* Vec::sort
VecSort(v) == SortSeq(v, CellLess)

\* Vec::dedup: removes consecutive repeated elements, that is every element
\* equal to its predecessor
VecDedup(v) ==
    LET kept == SelectSeq([i \in 1 .. Len(v) |-> i],
                          LAMBDA i : i = 1 \/ v[i] # v[i - 1])
    IN  [j \in 1 .. Len(kept) |-> v[kept[j]]] @@ <<>>

(***************************************************************************)
(* CellIndex::compact of h3o: the input must be free of duplicates and of  *)
(* one resolution; every complete set of siblings is replaced by its       *)
(* parent, recursively.                                                    *)
(***************************************************************************)
RECURSIVE CompactCells(_, _)
CompactCells(v, r) ==
    IF r = 0 \/ v = <<>> THEN v
    ELSE LET present == Range(v)
             IsFull(p) == \A d \in Digits : Append(p, d) \in present
             firsts == SelectSeq(v, LAMBDA c : c[Len(c)] = 0 /\ IsFull(parent(c, r - 1)))
             full == [i \in 1 .. Len(firsts) |-> parent(firsts[i], r - 1)] @@ <<>>
         IN  CompactCells(full, r - 1)
               \o SelectSeq(v, LAMBDA c : ~IsFull(parent(c, r - 1)))

CellIndexCompact(v) ==
    IF Cardinality(Range(v)) # Len(v)
         \/ Cardinality({ resolution(c) : c \in Range(v) }) > 1
    THEN [ok |-> FALSE, cells |-> <<>>]
    ELSE [ok |-> TRUE,
          cells |-> IF v = <<>> THEN <<>>
                    ELSE CompactCells(v, resolution(v[1]))]

(***************************************************************************)
(* CellCoverage                                                            *)
(***************************************************************************)
\* CellCoverage::default
CellCoverageDefault ==
    [modified_resolutions |-> [r \in Resolutions |-> FALSE],
     cells_by_resolution  |-> [r \in Resolutions |-> <<>>]]

\* CellCoverage::insert
insert(cov, cell) ==
    LET idx == resolution(cell)
    IN  [modified_resolutions |-> [cov.modified_resolutions EXCEPT ![idx] = TRUE],
         cells_by_resolution  |->
             [cov.cells_by_resolution EXCEPT ![idx] = Append(@, cell)]]

\* insert of every cell of a sequence, in its order
insert_all(cov, cells) ==
    [modified_resolutions |->
         [r \in Resolutions |->
             cov.modified_resolutions[r] \/ \E c \in Range(cells) : resolution(c) = r]
           @@ <<>>,
     cells_by_resolution |->
         [r \in Resolutions |->
             cov.cells_by_resolution[r]
               \o SelectSeq(cells, LAMBDA c : resolution(c) = r)] @@ <<>>]

\* CellCoverage::append: the sink after self.append(other)
append_sink(self, other) ==
    [modified_resolutions |->
         [r \in Resolutions |->
             IF other.cells_by_resolution[r] = <<>>
             THEN self.modified_resolutions[r] ELSE TRUE] @@ <<>>,
     cells_by_resolution |->
         [r \in Resolutions |->
             self.cells_by_resolution[r] \o other.cells_by_resolution[r]] @@ <<>>]

\* CellCoverage::append: the source after self.append(other); Vec::append
\* leaves the source vectors empty, the flags of the source are untouched
append_source(other) ==
    [other EXCEPT !.cells_by_resolution = [r \in Resolutions |-> <<>>]]

\* covers with a range that excludes the resolution of the cell itself
covers_exclusive(cov, cell) ==
    \E res \in 0 .. (resolution(cell) - 1) :
        parent(cell, res) \in Range(cov.cells_by_resolution[res])

\* CellCoverage::covers
covers(cov, cell) ==
    \E res \in 0 .. resolution(cell) :
        LET search_cell == IF res = resolution(cell) THEN cell
                           ELSE parent(cell, res)
        IN  search_cell \in Range(cov.cells_by_resolution[res])

\* a retain closure that looks at the direct parent only
is_contained_direct(cell, seen) ==
    resolution(cell) > 0 /\ parent(cell, resolution(cell) - 1) \in seen

\* the closure of Vec::retain in dedup: some parent of the cell, from its own
\* resolution down to 0, is in seen
is_contained(cell, seen) ==
    \E res \in 0 .. resolution(cell) :
        parent(cell, res) # NoCell /\ parent(cell, res) \in seen

\* the loop over the buckets of dedup, from bucket r on, with the cells seen
\* in the coarser buckets
RECURSIVE remove_covered(_, _, _)
remove_covered(cells, r, seen) ==
    IF r >= NumRes THEN cells
    ELSE LET v == IF seen # {}
                  THEN SelectSeq(cells[r], LAMBDA c : ~is_contained(c, seen))
                  ELSE cells[r]
         IN  remove_covered([cells EXCEPT ![r] = v], r + 1, seen \cup Range(v))

\* a dedup that forgets to sort the buckets before Vec::dedup
dedup_unsorted(cov, shrink, parents) ==
    LET sorted == [r \in Resolutions |-> VecDedup(cov.cells_by_resolution[r])] @@ <<>>
    IN  [cov EXCEPT !.cells_by_resolution =
            IF parents /\ Cardinality({ r \in Resolutions : sorted[r] # <<>> }) > 1
            THEN remove_covered(sorted, 0, {})
            ELSE sorted]

\* CellCoverage::dedup (shrink_to_fit changes the capacity only)
dedup(cov, shrink, parents) ==
    LET sorted == [r \in Resolutions |-> VecDedup(VecSort(cov.cells_by_resolution[r]))]
                    @@ <<>>
    IN  [cov EXCEPT !.cells_by_resolution =
            IF parents /\ Cardinality({ r \in Resolutions : sorted[r] # <<>> }) > 1
            THEN remove_covered(sorted, 0, {})
            ELSE sorted]

\* a loop that compacts the finest touched bucket only
compact_loop_once(cov, res) ==
    IF res < 0 THEN [ok |-> TRUE, cov |-> cov]
    ELSE LET compacted_in == VecDedup(VecSort(cov.cells_by_resolution[res]))
             taken == [cov EXCEPT !.cells_by_resolution[res] = <<>>]
             out == CellIndexCompact(compacted_in)
         IN  IF ~out.ok THEN [ok |-> FALSE, cov |-> taken]
             ELSE [ok |-> TRUE, cov |-> insert_all(taken, out.cells)]

\* the while loop of compact, at resolution res; res = -1 is None
RECURSIVE compact_loop(_, _)
compact_loop(cov, res) ==
    IF res < 0 THEN [ok |-> TRUE, cov |-> cov]
    ELSE LET compacted_in == VecDedup(VecSort(cov.cells_by_resolution[res]))
             taken == [cov EXCEPT !.cells_by_resolution[res] = <<>>]
             out == CellIndexCompact(compacted_in)
         IN  IF ~out.ok THEN [ok |-> FALSE, cov |-> taken]
             ELSE compact_loop(insert_all(taken, out.cells), res - 1)

\* a compact whose closing dedup does not remove the cells covered by a parent
compact_keep_covered(cov) ==
    LET d == dedup(cov, FALSE, FALSE)
        touched == { r \in Resolutions : d.modified_resolutions[r] }
    IN  IF touched = {}
        THEN [ok |-> TRUE, cov |-> dedup(d, TRUE, TRUE)]
        ELSE LET min_touched_res == CHOOSE r \in touched : \A q \in touched : q <= r
                 l == compact_loop(d, min_touched_res)
             IN  IF ~l.ok THEN l
                 ELSE [ok |-> TRUE,
                       cov |-> dedup([l.cov EXCEPT !.modified_resolutions =
                                          [r \in Resolutions |-> FALSE]],
                                     TRUE, FALSE)]

\* CellCoverage::compact; ok is FALSE when it returns Err
compact(cov) ==
    LET d == dedup(cov, FALSE, FALSE)
        touched == { r \in Resolutions : d.modified_resolutions[r] }
    IN  IF touched = {}
        THEN [ok |-> TRUE, cov |-> dedup(d, TRUE, TRUE)]
        ELSE LET min_touched_res == CHOOSE r \in touched : \A q \in touched : q <= r
                 l == compact_loop(d, min_touched_res)
             IN  IF ~l.ok THEN l
                 ELSE [ok |-> TRUE,
                       cov |-> dedup([l.cov EXCEPT !.modified_resolutions =
                                          [r \in Resolutions |-> FALSE]],
                                     TRUE, TRUE)]

\* a finalize that leaves the cells covered by a parent in place
finalize_duplicates_only(cov, do_compact) ==
    IF do_compact THEN compact(cov)
    ELSE [ok |-> TRUE, cov |-> dedup(cov, TRUE, FALSE)]

\* CellCoverage::finalize
finalize(cov, do_compact) ==
    IF do_compact THEN compact(cov)
    ELSE [ok |-> TRUE, cov |-> dedup(cov, TRUE, TRUE)]

(***************************************************************************)
(* Geometry.  Floating point coordinates are modelled by exact rationals:  *)
(* degrees are integers, the centroid of a cell is an integer multiple of  *)
(* 1/Scale degree.                                                         *)
(***************************************************************************)
Scale == 2 * NumBaseCols * NumBaseRows * Pow(Branch, NumRes - 1)

\* Coord and Rect of geo_types; Rect::new orders the two corners per axis
Coord(x, y) == [x |-> x, y |-> y]

Min(a, b) == IF a <= b THEN a ELSE b
Max(a, b) == IF a >= b THEN a ELSE b

RectNew(c1, c2) ==
    [min |-> Coord(Min(c1.x, c2.x), Min(c1.y, c2.y)),
     max |-> Coord(Max(c1.x, c2.x), Max(c1.y, c2.y))]

\* LatLng::from(cell): the centroid of a cell, times Scale.  Base cell b lies
\* in column b % NumBaseCols and row b \div NumBaseCols of a grid over
\* [-180,180] x [-90,90]; the children of a cell split it along the longitude.
CentroidX(cell) ==
    (-180) * Scale
      + 360 * NumBaseRows
          * (2 * (cell[1] % NumBaseCols) * Pow(Branch, NumRes - 1)
             + (2 * DigitsValue(cell, Len(cell)) + 1)
                 * Pow(Branch, NumRes - 1 - resolution(cell)))

CentroidY(cell) ==
    (-90) * Scale
      + 180 * NumBaseCols * Pow(Branch, NumRes - 1)
          * (2 * (cell[1] \div NumBaseCols) + 1)

\* let cell_centroid: Coord = LatLng::from(cell).into()
cell_centroid(cell) == Coord(CentroidX(cell), CentroidY(cell))

\* the centroids of the cells of every resolution in the order of
\* CellSeqOfRes, computed once
CentroidSeqOfRes ==
    [r \in Resolutions |->
        [i \in 1 .. Len(CellSeqOfRes[r]) |-> cell_centroid(CellSeqOfRes[r][i])] @@ <<>>]
      @@ <<>>

\* Tiler with ContainmentMode::ContainsCentroid, add(rect) and
\* into_coverage(): the cells of the resolution whose centroid is in the
\* rectangle, here in the order of their index

TilerCoverage(rect, res) ==
    LET centroids == CentroidSeqOfRes[res]
        at == SelectSeq([i \in 1 .. Len(centroids) |-> i],
                        LAMBDA i :
                          /\ rect.min.x * Scale <= centroids[i].x
                          /\ centroids[i].x <= rect.max.x * Scale
                          /\ rect.min.y * Scale <= centroids[i].y
                          /\ centroids[i].y <= rect.max.y * Scale)
    IN  [j \in 1 .. Len(at) |-> CellSeqOfRes[res][at[j]]] @@ <<>>

\* f64 % f64: the remainder has the sign of the dividend
Fmod(a, b) == IF a >= 0 THEN a % b ELSE -((-a) % b)

\* floor of the rational n / m, m # 0
FloorDiv(n, m) == IF m > 0 THEN n \div m ELSE (-n) \div (-m)

\* f64 as usize: a saturating cast
AsUsize(i) == IF i < 0 THEN 0 ELSE i

(***************************************************************************)
(* AffineTransform of geo: x' = a*x + b*y + xoff, y' = d*x + e*y + yoff    *)
(***************************************************************************)
AffineApply(t, c) ==
    Coord(t.a * c.x + t.b * c.y + t.xoff, t.d * c.x + t.e * c.y + t.yoff)

Determinant(t) == t.a * t.e - t.b * t.d

\* AffineTransform::inverse: None for a zero determinant; the coefficients
\* of the inverse are the fields of the result divided by den
NoTransform == [den |-> 0]

AffineInverse(t) ==
    IF Determinant(t) = 0 THEN NoTransform
    ELSE [a |-> t.e, b |-> -t.b, xoff |-> t.b * t.yoff - t.e * t.xoff,
          d |-> -t.d, e |-> t.a, yoff |-> t.d * t.xoff - t.a * t.yoff,
          den |-> Determinant(t)]

\* Rect::affine_transform: the rectangle of the two transformed corners
RectAffineTransform(rect, t) ==
    RectNew(AffineApply(t, rect.min), AffineApply(t, rect.max))

(***************************************************************************)
(* util.rs                                                                 *)
(***************************************************************************)
normalize_longitude(longitude) == Fmod(longitude + 540, 360) - 180

SplittedRect(rect, diff) ==
    [rect |-> rect, difference_due_to_antimeridian_split |-> diff]

\* a split that does not compare the normalized bounds
split_rect_always(rect) ==
    LET min_x_normalized == normalize_longitude(rect.min.x)
        max_x_normalized == normalize_longitude(rect.max.x)
    IN  << SplittedRect(RectNew(Coord(-180, rect.min.y),
                                Coord(max_x_normalized, rect.max.y)),
                        max_x_normalized - rect.max.x),
           SplittedRect(RectNew(Coord(min_x_normalized, rect.min.y),
                                Coord(180, rect.max.y)),
                        min_x_normalized - rect.min.x) >>

\* a split that gives each piece the difference of the other piece
split_rect_swapped_differences(rect) ==
    LET min_x_normalized == normalize_longitude(rect.min.x)
        max_x_normalized == normalize_longitude(rect.max.x)
    IN  IF min_x_normalized < max_x_normalized
        THEN << SplittedRect(rect, 0) >>
        ELSE << SplittedRect(RectNew(Coord(-180, rect.min.y),
                                     Coord(max_x_normalized, rect.max.y)),
                             min_x_normalized - rect.min.x),
                SplittedRect(RectNew(Coord(min_x_normalized, rect.min.y),
                                     Coord(180, rect.max.y)),
                             max_x_normalized - rect.max.x) >>

split_rect_at_antimeridian(rect) ==
    LET min_x_normalized == normalize_longitude(rect.min.x)
        max_x_normalized == normalize_longitude(rect.max.x)
    IN  IF min_x_normalized < max_x_normalized
        THEN << SplittedRect(rect, 0) >>
        ELSE << SplittedRect(RectNew(Coord(-180, rect.min.y),
                                     Coord(max_x_normalized, rect.max.y)),
                             max_x_normalized - rect.max.x),
                SplittedRect(RectNew(Coord(min_x_normalized, rect.min.y),
                                     Coord(180, rect.max.y)),
                             min_x_normalized - rect.min.x) >>

(***************************************************************************)
(* AxisOrder and ndarray views.  An array is a record of its shape and its *)
(* elements, a function of the index pairs <<i0, i1>>.  A view is the      *)
(* offset and the shape of a window into the array.                        *)
(***************************************************************************)
x_axis(axis_order) == IF axis_order = "XY" THEN 1 ELSE 2
y_axis(axis_order) == IF axis_order = "XY" THEN 2 ELSE 1

FullView(a) == [off |-> <<0, 0>>, shape |-> a.shape]

\* ArrayView2::slice(s![r1, r2]) with ranges <<start, end>>, end excluded
Slice(v, r1, r2) ==
    [off |-> <<v.off[1] + r1[1], v.off[2] + r2[1]>>,
     shape |-> <<Max(0, r1[2] - r1[1]), Max(0, r2[2] - r2[1])>>]

\* s![x_range, y_range] in XY order, s![y_range, x_range] in YX order
SliceXY(v, axis_order, x_range, y_range) ==
    IF axis_order = "XY" THEN Slice(v, x_range, y_range)
    ELSE Slice(v, y_range, x_range)

\* the full range `..` of one axis of a view
FullRange(v, axis) == <<0, v.shape[axis]>>

\* the element of a view at position pos of the axis and position k of the
\* other axis
LaneElem(a, v, axis, pos, k) ==
    IF axis = 1 THEN a.elems[<<v.off[1] + pos, v.off[2] + k>>]
    ELSE a.elems[<<v.off[1] + k, v.off[2] + pos>>]

\* a test that looks at the first element of the lane only
LaneFirstHasData(a, v, axis, pos, nodata_value) ==
    v.shape[3 - axis] > 0 /\ LaneElem(a, v, axis, pos, 0) # nodata_value

\* r0.iter().any(|v| v != nodata_value) for the lane at pos of axis_iter(axis)
LaneHasData(a, v, axis, pos, nodata_value) ==
    \E k \in 0 .. (v.shape[3 - axis] - 1) :
        LaneElem(a, v, axis, pos, k) # nodata_value

\* the loop of find_continuous_chunks_along_axis from position r0pos on;
\* current_chunk_start = -1 is None
RECURSIVE chunks_loop(_, _, _, _, _, _, _)
chunks_loop(a, v, axis, nodata_value, r0pos, current_chunk_start, chunks) ==
    IF r0pos >= v.shape[axis]
    THEN IF current_chunk_start # -1
         THEN Append(chunks, <<current_chunk_start, v.shape[axis] - 1>>)
         ELSE chunks
    ELSE IF LaneHasData(a, v, axis, r0pos, nodata_value)
         THEN chunks_loop(a, v, axis, nodata_value, r0pos + 1,
                          IF current_chunk_start = -1 THEN r0pos
                          ELSE current_chunk_start,
                          chunks)
         ELSE IF current_chunk_start # -1
              THEN chunks_loop(a, v, axis, nodata_value, r0pos + 1, -1,
                               Append(chunks, <<current_chunk_start, r0pos - 1>>))
              ELSE chunks_loop(a, v, axis, nodata_value, r0pos + 1, -1, chunks)

\* a search that returns the whole axis as one chunk when there is any data
find_one_chunk_along_axis(a, v, axis, nodata_value) ==
    IF \E pos \in 0 .. (v.shape[axis] - 1) : LaneHasData(a, v, axis, pos, nodata_value)
    THEN << <<0, v.shape[axis] - 1>> >>
    ELSE <<>>

find_continuous_chunks_along_axis(a, v, axis, nodata_value) ==
    chunks_loop(a, v, axis, nodata_value, 0, -1, <<>>)

\* Iterator::map and Iterator::flat_map over a sequence
MapSeq(s, F(_)) == [i \in 1 .. Len(s) |-> F(s[i])] @@ <<>>

FlatMap(s, F(_)) == Flatten(MapSeq(s, F))

\* find_boxes_containing_data on the view v of the array a
find_boxes_containing_data(a, v, nodata_value, axis_order) ==
    LET xa == x_axis(axis_order)
        ya == y_axis(axis_order)
        boxes_of_x_chunk(chunk_x_raw_indexes) ==
            LET sv == SliceXY(v, axis_order,
                              <<chunk_x_raw_indexes[1], chunk_x_raw_indexes[2] + 1>>,
                              FullRange(v, ya))
                boxes_of_y_chunk(chunks_y_raw_indexes) ==
                    LET sv2 == SliceXY(sv, axis_order,
                                   <<0, chunk_x_raw_indexes[2] - chunk_x_raw_indexes[1] + 1>>,
                                   <<chunks_y_raw_indexes[1], chunks_y_raw_indexes[2] + 1>>)
                        box(chunks_x_indexes) ==
                            RectNew(Coord(chunks_x_indexes[1] + chunk_x_raw_indexes[1],
                                          chunks_y_raw_indexes[1]),
                                    Coord(chunks_x_indexes[2] + chunk_x_raw_indexes[1],
                                          chunks_y_raw_indexes[2]))
                    IN  MapSeq(find_continuous_chunks_along_axis(a, sv2, xa, nodata_value),
                               box)
            IN  FlatMap(find_continuous_chunks_along_axis(a, sv, ya, nodata_value),
                        boxes_of_y_chunk)
    IN  FlatMap(find_continuous_chunks_along_axis(a, v, xa, nodata_value),
                boxes_of_x_chunk)

(***************************************************************************)
(* H3Converter: the work rectangles                                        *)
(***************************************************************************)
RectSizeDivisor == 10
RectSizeMin == 10
RectSizeMax == 100

\* (shape[x_axis] / 10).clamp(10, 100)
rect_size(a, axis_order) ==
    Min(Max(a.shape[x_axis(axis_order)] \div RectSizeDivisor, RectSizeMin), RectSizeMax)

\* ceil(n / size) for usize values converted to f64
CeilDiv(n, size) == (n + size - 1) \div size

\* ArrayView2::axis_chunks_iter(Axis(axis), size): the views of the chunks,
\* the last one shorter when size does not divide the length of the axis
axis_chunks_iter(v, axis, size) ==
    [i \in 1 .. CeilDiv(v.shape[axis], size) |->
        LET start == (i - 1) * size
            len == Min(size, v.shape[axis] - start)
        IN  IF axis = 1
            THEN [off |-> <<v.off[1] + start, v.off[2]>>, shape |-> <<len, v.shape[2]>>]
            ELSE [off |-> <<v.off[1], v.off[2] + start>>, shape |-> <<v.shape[1], len>>]]

\* H3Converter::chunk_rects_with_data_nodata
chunk_rects_with_data_nodata(a, axis_order, size, nodata, axis_x_chunk_i, axis_x_chunk) ==
    LET rects_of_box(chunk_x_rect) ==
            LET offset_x == (axis_x_chunk_i * size) + chunk_x_rect.min.x
                chunk_rect_view ==
                    SliceXY(axis_x_chunk, axis_order,
                            <<chunk_x_rect.min.x, chunk_x_rect.max.x>>,
                            <<chunk_x_rect.min.y, chunk_x_rect.max.y>>)
                y_chunks == axis_chunks_iter(chunk_rect_view, y_axis(axis_order), size)
            IN  [j \in 1 .. Len(y_chunks) |->
                    LET offset_y == ((j - 1) * size) + chunk_x_rect.min.y
                    IN  RectNew(Coord(offset_x, offset_y),
                                Coord(offset_x + y_chunks[j].shape[x_axis(axis_order)] + 1,
                                      offset_y + y_chunks[j].shape[y_axis(axis_order)] + 1))]
    IN  FlatMap(find_boxes_containing_data(a, axis_x_chunk, nodata, axis_order),
                rects_of_box)

\* H3Converter::rects_with_data_with_nodata; collect keeps the order of the
\* chunks also for a parallel iterator
rects_with_data_with_nodata(a, axis_order, size, nodata) ==
    LET x_chunks == axis_chunks_iter(FullView(a), x_axis(axis_order), size)
        rects_of_chunk(i) ==
            chunk_rects_with_data_nodata(a, axis_order, size, nodata, i - 1, x_chunks[i])
    IN  FlatMap([i \in 1 .. Len(x_chunks) |-> i], rects_of_chunk)

\* H3Converter::rects_with_data_without_nodata
rects_with_data_without_nodata(a, axis_order, size) ==
    LET x_size == a.shape[x_axis(axis_order)]
        y_size == a.shape[y_axis(axis_order)]
        n_y == CeilDiv(y_size, size)
        rects_of_column(r_x) ==
            [k \in 1 .. n_y |->
                LET r_y == k - 1
                IN  RectNew(Coord(r_x * size, r_y * size),
                            Coord(Min(x_size, (r_x + 1) * size),
                                  Min(y_size, (r_y + 1) * size)))]
    IN  FlatMap([i \in 1 .. CeilDiv(x_size, size) |-> i - 1], rects_of_column)

\* Option<T>: None is the empty sequence, Some(v) the sequence of v
NoValue == <<>>
Some(v) == <<v>>

\* H3Converter::rects_with_data
rects_with_data(a, axis_order, nodata_value, size) ==
    IF nodata_value = NoValue
    THEN rects_with_data_without_nodata(a, axis_order, size)
    ELSE rects_with_data_with_nodata(a, axis_order, size, nodata_value[1])

(***************************************************************************)
(* convert_array_window                                                    *)
(***************************************************************************)
\* the point of the cell centroid plus the antimeridian offset, mapped
\* through the inverse transform and rounded down, before the cast to usize
TransformedFloor(cell, diff, inv) ==
    LET px == cell_centroid(cell).x + diff * Scale
        py == cell_centroid(cell).y
    IN  Coord(FloorDiv(inv.a * px + inv.b * py + inv.xoff * Scale, inv.den * Scale),
              FloorDiv(inv.d * px + inv.e * py + inv.yoff * Scale, inv.den * Scale))

\* arr_coord of convert_array_window
arr_coord(cell, diff, inv, axis_order) ==
    LET transformed == TransformedFloor(cell, diff, inv)
    IN  IF axis_order = "XY"
        THEN <<AsUsize(transformed.x), AsUsize(transformed.y)>>
        ELSE <<AsUsize(transformed.y), AsUsize(transformed.x)>>

\* ArrayView2::get: None outside of the array
ArrGet(a, idx) ==
    IF idx[1] < a.shape[1] /\ idx[2] < a.shape[2] THEN Some(a.elems[idx]) ELSE NoValue

\* HashMap::default
EmptyMap == [v \in {} |-> CellCoverageDefault]

\* the loop over the cells of one piece of the window, in the order the
\* tiler produces them: a cell whose array element exists and is not the
\* nodata value is inserted into the coverage of that element,
\* chunk_h3_map.entry(value).or_insert_with(CellCoverage::default).insert(cell)
insert_cells(a, cells, diff, inv, axis_order, nodata_value, acc) ==
    LET got == [i \in 1 .. Len(cells) |->
                   ArrGet(a, arr_coord(cells[i], diff, inv, axis_order))] @@ <<>>
        kept == SelectSeq([i \in 1 .. Len(cells) |-> i],
                          LAMBDA i : got[i] # NoValue /\ got[i] # nodata_value)
        values == { got[i][1] : i \in Range(kept) }
        cells_of(v) == LET at == SelectSeq(kept, LAMBDA i : got[i][1] = v)
                       IN  [j \in 1 .. Len(at) |-> cells[at[j]]] @@ <<>>
    IN  [map |-> [v \in DOMAIN acc.map \cup values |->
                     insert_all(IF v \in DOMAIN acc.map THEN acc.map[v]
                                ELSE CellCoverageDefault,
                                cells_of(v))] @@ <<>>,
         log |-> acc.log \cup
                   { [cell |-> cells[i], value |-> got[i][1], diff |-> diff,
                      at |-> TransformedFloor(cells[i], diff, inv)] :
                         i \in Range(kept) }]

\* the order in which Tiler::into_coverage yields the cells is not specified
TilerOrders == {"ascending", "descending"}

Reverse(s) == [i \in 1 .. Len(s) |-> s[Len(s) + 1 - i]] @@ <<>>

CellsInOrder(cells, order) ==
    IF order = "ascending" THEN cells ELSE Reverse(cells)

\* the debug assertions of convert_array_window on a piece of the window
PieceInRange(piece) ==
    /\ piece.rect.min.x >= -180 /\ piece.rect.min.x <= 180
    /\ piece.rect.max.x >= -180 /\ piece.rect.max.x <= 180

\* tiler.add(rect): Err(InvalidGeometry) unless every coordinate of the
\* rectangle is within two pi, 360 degrees, of zero
TilerAdd(rect) ==
    /\ -360 <= rect.min.x /\ rect.max.x <= 360
    /\ -360 <= rect.min.y /\ rect.max.y <= 360

\* finalize_chunk_map: finalize of every coverage of the map
finalize_chunk_map(m, do_compact) ==
    LET f == [v \in DOMAIN m |-> finalize(m[v], do_compact)] @@ <<>>
    IN  [ok |-> \A v \in DOMAIN m : f[v].ok,
         map |-> [v \in DOMAIN m |-> f[v].cov] @@ <<>>]

\* the loop over the pieces of the window
RECURSIVE convert_pieces(_, _, _, _, _, _, _, _)
convert_pieces(a, pieces, inv, axis_order, nodata_value, res, order, acc) ==
    IF pieces = <<>> THEN acc
    ELSE LET piece == Head(pieces)
         IN  IF ~PieceInRange(piece) THEN [acc EXCEPT !.panic = TRUE]
             ELSE IF ~TilerAdd(piece.rect) THEN [acc EXCEPT !.err = TRUE]
             ELSE convert_pieces(a, Tail(pieces), inv, axis_order, nodata_value, res, order,
                     [panic |-> FALSE, err |-> FALSE] @@
                     insert_cells(a, CellsInOrder(TilerCoverage(piece.rect, res), order),
                                  piece.difference_due_to_antimeridian_split,
                                  inv, axis_order, nodata_value,
                                  [map |-> acc.map, log |-> acc.log]))

\* convert_array_window; panic is TRUE when a debug assertion fails, ok is
\* FALSE when it returns Err, and then there is no map
convert_array_window(a, window_box, inv, axis_order, nodata_value, res, do_compact, order) ==
    LET c == convert_pieces(a, split_rect_at_antimeridian(window_box), inv, axis_order,
                            nodata_value, res, order,
                            [panic |-> FALSE, err |-> FALSE, map |-> EmptyMap, log |-> {}])
        f == finalize_chunk_map(c.map, do_compact)
    IN  [panic |-> c.panic, ok |-> ~c.err /\ f.ok,
         map |-> IF c.err THEN EmptyMap ELSE f.map, log |-> c.log]

\* a loop body that appends the coverage of the smallest value of the chunk
\* to the coverage of every value
combine_chunk_first_key(m, chunk_h3_map) ==
    [v \in DOMAIN m \cup DOMAIN chunk_h3_map |->
        IF chunk_h3_map = EmptyMap THEN m[v]
        ELSE append_sink(IF v \in DOMAIN m THEN m[v] ELSE CellCoverageDefault,
                         chunk_h3_map[CHOOSE w \in DOMAIN chunk_h3_map :
                                          \A u \in DOMAIN chunk_h3_map : w <= u])]
      @@ <<>>

\* the body of the loop that combines the results of the chunks: every
\* coverage of the chunk map is appended to the coverage of its value
combine_chunk(m, chunk_h3_map) ==
    [v \in DOMAIN m \cup DOMAIN chunk_h3_map |->
        IF v \notin DOMAIN chunk_h3_map THEN m[v]
        ELSE append_sink(IF v \in DOMAIN m THEN m[v] ELSE CellCoverageDefault,
                         chunk_h3_map[v])] @@ <<>>

(***************************************************************************)
(* State                                                                   *)
(***************************************************************************)
VARIABLES
    cov,            \* the coverage machine: the two CellCoverage values
    inserted,       \* per coverage: the cells put into it by insert or append
    lastOp,         \* per coverage: the last call made on it and its result
    nInserts,       \* number of insert calls so far
    converter,      \* the H3Converter: arr, nodata_value, transform, axis_order
    call,           \* the arguments of to_h3: h3_resolution, compact
    pc,             \* the position of to_h3
    rects,          \* the work rectangles of to_h3
    chunk_h3_maps,  \* per work rectangle: the result of convert_array_window
    h3_map,         \* the combined map of to_h3
    merged,         \* number of chunk maps appended to h3_map
    insertLog,      \* the insertions made by convert_array_window so far
    schedule,       \* the work rectangles and tiler orders, as processed so far
    split_input,    \* the rectangle given to split_rect_at_antimeridian
    splitted,       \* the pieces split_rect_at_antimeridian returned
    search,         \* nearest_h3_resolution: shape, search_mode, area_pixel, center
    res_pc,         \* nearest_h3_resolution: its position, its result at the end
    h3_res,         \* nearest_h3_resolution: the resolution the loop is at
    nearest_h3_res, \* nearest_h3_resolution: the resolution it returns
    area_difference \* nearest_h3_resolution: the area difference of the last pass

covVars == <<cov, inserted, lastOp, nInserts>>
convVars == <<converter, call, pc, rects, chunk_h3_maps, h3_map, merged, insertLog,
              schedule>>
splitVars == <<split_input, splitted>>
resVars == <<search, res_pc, h3_res, nearest_h3_res, area_difference>>
utilVars == <<splitVars, resVars>>
vars == <<cov, inserted, lastOp, nInserts,
          converter, call, pc, rects, chunk_h3_maps, h3_map, merged, insertLog,
          schedule, split_input, splitted,
          search, res_pc, h3_res, nearest_h3_res, area_difference>>

CovIds == {1, 2}

\* no coverage calls are made
CovIdle ==
    /\ cov = [id \in CovIds |-> CellCoverageDefault]
    /\ inserted = [id \in CovIds |-> {}]
    /\ lastOp = [id \in CovIds |-> "new"]
    /\ nInserts = 0

\* no conversion is made
ConvIdle ==
    /\ converter = <<>>
    /\ call = <<>>
    /\ pc = "idle"
    /\ rects = <<>>
    /\ chunk_h3_maps = <<>>
    /\ h3_map = EmptyMap
    /\ merged = 0
    /\ insertLog = {}
    /\ schedule = <<>>

\* split_rect_at_antimeridian is not called on its own
SplitIdle ==
    /\ split_input = <<>>
    /\ splitted = <<>>

\* nearest_h3_resolution is not called
ResIdle ==
    /\ search = <<>>
    /\ res_pc = "idle"
    /\ h3_res = 0
    /\ nearest_h3_res = 0
    /\ area_difference = <<>>

UtilIdle == SplitIdle /\ ResIdle

(***************************************************************************)
(* The coverage container as a state machine: two coverages, self (1) and  *)
(* other (2), receive insert, append, compact and finalize calls.          *)
(***************************************************************************)
\* the cells the insert calls draw from: one base cell with all its
\* descendants
CovCells == { c \in AllCells : c[1] = 0 }

CovInit == CovIdle /\ ConvIdle /\ UtilIdle

Insert(id, cell) ==
    /\ nInserts < MaxInserts
    /\ cov' = [cov EXCEPT ![id] = insert(@, cell)]
    /\ inserted' = [inserted EXCEPT ![id] = @ \cup {cell}]
    /\ lastOp' = [lastOp EXCEPT ![id] = "insert"]
    /\ nInserts' = nInserts + 1
    /\ UNCHANGED <<convVars, utilVars>>

\* self.append(&mut other) with self = 1 and other = 2
AppendOther ==
    /\ cov' = [cov EXCEPT ![1] = append_sink(cov[1], cov[2]),
                          ![2] = append_source(cov[2])]
    /\ inserted' = [inserted EXCEPT ![1] = inserted[1] \cup inserted[2],
                                    ![2] = {}]
    /\ lastOp' = [id \in CovIds |-> "append"]
    /\ UNCHANGED <<nInserts, convVars, utilVars>>

Compact(id) ==
    LET res == compact(cov[id])
    IN  /\ cov' = [cov EXCEPT ![id] = res.cov]
        /\ lastOp' = [lastOp EXCEPT ![id] =
                          IF res.ok THEN "compact" ELSE "compact_err"]
        /\ UNCHANGED <<inserted, nInserts, convVars, utilVars>>

Finalize(id, do_compact) ==
    LET res == finalize(cov[id], do_compact)
    IN  /\ cov' = [cov EXCEPT ![id] = res.cov]
        /\ lastOp' = [lastOp EXCEPT ![id] =
                          IF ~res.ok THEN "finalize_err"
                          ELSE IF do_compact THEN "finalize_compact"
                          ELSE "finalize_dedup"]
        /\ UNCHANGED <<inserted, nInserts, convVars, utilVars>>

CovNext ==
    \/ \E id \in CovIds, cell \in CovCells : Insert(id, cell)
    \/ AppendOther
    \/ \E id \in CovIds : Compact(id)
    \/ \E id \in CovIds, do_compact \in BOOLEAN : Finalize(id, do_compact)

Spec == CovInit /\ [][CovNext]_vars

\* CellIndex::children(res) as the iterator yields it: the descendants in the
\* order of their index
RECURSIVE children_iter(_, _)
children_iter(cell, res) ==
    IF res < resolution(cell) THEN <<>>
    ELSE IF res = resolution(cell) THEN <<cell>>
    ELSE Flatten([d \in 1 .. Branch |-> children_iter(Append(cell, d - 1), res)])

\* an uncompacted_iter over the range 0..r_idx, which leaves out the bucket
\* of the target resolution
uncompacted_iter_exclusive(c, r) ==
    Flatten([i \in 1 .. r |->
                FlatMap(c.cells_by_resolution[i - 1],
                        LAMBDA cell : children_iter(cell, r))])

\* CellCoverage::uncompacted_iter: the buckets 0..=r_idx in their order, every
\* cell expanded to its children at r
uncompacted_iter(c, r) ==
    Flatten([i \in 1 .. (r + 1) |->
                FlatMap(c.cells_by_resolution[i - 1],
                        LAMBDA cell : children_iter(cell, r))])

(***************************************************************************)
(* The coverage machine started after a batch of insert calls of one       *)
(* resolution: the descendants of a first cell, then those of a second     *)
(* one, which repeats cells when the two overlap.                          *)
(***************************************************************************)
InsertBatches ==
    { children_iter(c1, r) \o children_iter(c2, r) :
          c1 \in CovCells, c2 \in CovCells, r \in Resolutions }

\* the batch has been inserted into coverage 1; one insert call is left
BatchInit ==
    /\ \E batch \in InsertBatches :
           /\ batch # <<>>
           /\ cov = [id \in CovIds |->
                        IF id = 1 THEN insert_all(CellCoverageDefault, batch)
                        ELSE CellCoverageDefault]
           /\ inserted = [id \in CovIds |-> IF id = 1 THEN Range(batch) ELSE {}]
    /\ lastOp = [id \in CovIds |-> IF id = 1 THEN "insert" ELSE "new"]
    /\ nInserts = MaxInserts - 1
    /\ ConvIdle
    /\ UtilIdle

SpecBatch == BatchInit /\ [][CovNext]_vars

(***************************************************************************)
(* to_h3 as a state machine.  The chunks are converted in any order (the   *)
(* parallel iterator), their results are collected in the order of the     *)
(* work rectangles and combined in that order.                             *)
(***************************************************************************)
Values == {0, 1, 2}

\* the array of a picture g over nx x ny pixels, laid out in the axis order
MakeArray(axis_order, nx, ny, g) ==
    LET shape == IF axis_order = "XY" THEN <<nx, ny>> ELSE <<ny, nx>>
    IN  [shape |-> shape,
         elems |-> [idx \in (0 .. (shape[1] - 1)) \X (0 .. (shape[2] - 1)) |->
                       IF axis_order = "XY" THEN g[<<idx[1], idx[2]>>]
                       ELSE g[<<idx[2], idx[1]>>]]]

Transform(a, b, xoff, d, e, yoff) ==
    [a |-> a, b |-> b, xoff |-> xoff, d |-> d, e |-> e, yoff |-> yoff]

\* small rasters of 30 degree pixels: the 2 x 2 pictures over two values, and
\* 3 x 2 pictures of two columns of data around an empty middle column
SmallPictures ==
    { [nx |-> 2, ny |-> 2, g |-> g] : g \in [(0 .. 1) \X (0 .. 1) -> {0, 1}] }
    \cup { [nx |-> 3, ny |-> 2,
            g |-> [p \in (0 .. 2) \X (0 .. 1) |->
                      IF p[1] = 0 THEN vl ELSE IF p[1] = 1 THEN 0 ELSE vr]] :
               vl \in Values, vr \in Values }

\* north-up rasters within [-180,180], across +180 and across -180, a
\* sheared raster, a south-up raster and a transform without inverse
SmallTransforms ==
    { Transform(30, 0, xoff, 0, -30, 30) : xoff \in {-30, 150, -210} }
    \cup { Transform(30, 30, -30, 0, -30, 30),
           Transform(30, 0, -30, 0, 30, -30),
           Transform(30, 30, -30, -30, -30, 30) }

\* wide rasters of 15 degree pixels, more than one chunk wide
WidePictures ==
    { [nx |-> 12, ny |-> 2,
       g |-> [p \in (0 .. 11) \X (0 .. 1) |-> IF p[1] < 10 THEN vl ELSE vr]] :
          vl \in Values, vr \in Values }

WideTransforms == { Transform(15, 0, xoff, 0, -30, 30) : xoff \in {-180, -90} }

\* tall rasters of 15 degree pixels, more than one chunk high
TallPictures ==
    { [nx |-> 1, ny |-> 12,
       g |-> [p \in (0 .. 0) \X (0 .. 11) |-> IF p[2] < 10 THEN vt ELSE vb]] :
          vt \in Values, vb \in Values }

\* from 90 degrees north to 90 degrees south, and with rows of 45 degrees
\* the rows of the second chunk lie beyond 360 degrees south
TallTransforms == { Transform(30, 0, -30, 0, e, 90) : e \in {-15, -45} }

\* rasters of 30 degree pixels that go around the globe and overlap
\* themselves by two columns
RoundPictures ==
    { [nx |-> 14, ny |-> 2,
       g |-> [p \in (0 .. 13) \X (0 .. 1) |-> IF p[1] = 0 THEN vl ELSE vr]] :
          vl \in Values, vr \in Values }

RoundTransforms == { Transform(30, 0, -180, 0, -30, 30) }

Scenes ==
    (SmallPictures \X SmallTransforms)
      \cup (WidePictures \X WideTransforms)
      \cup (TallPictures \X TallTransforms)
      \cup (RoundPictures \X RoundTransforms)

Converters ==
    { [arr |-> MakeArray(axis_order, s[1].nx, s[1].ny, s[1].g),
       nodata_value |-> nodata_value,
       transform |-> s[2],
       axis_order |-> axis_order] :
          s \in Scenes, axis_order \in {"XY", "YX"},
          nodata_value \in {NoValue, Some(0)} }

Calls == [h3_resolution : Resolutions, compact : BOOLEAN]

ToH3Init ==
    /\ CovIdle
    /\ UtilIdle
    /\ converter \in Converters
    /\ call \in Calls
    /\ pc = "new"
    /\ rects = <<>>
    /\ chunk_h3_maps = <<>>
    /\ h3_map = EmptyMap
    /\ merged = 0
    /\ insertLog = {}
    /\ schedule = <<>>

Pending == [state |-> "pending"]

\* to_h3 up to the parallel iterator: the inverse transform and the work
\* rectangles
ToH3Begin ==
    /\ pc = "new"
    /\ IF AffineInverse(converter.transform) = NoTransform
       THEN /\ pc' = "err"
            /\ UNCHANGED <<rects, chunk_h3_maps>>
       ELSE /\ rects' = rects_with_data(converter.arr, converter.axis_order,
                                        converter.nodata_value,
                                        rect_size(converter.arr, converter.axis_order))
            /\ chunk_h3_maps' = [i \in 1 .. Len(rects') |-> Pending]
            /\ pc' = "chunks"
    /\ UNCHANGED <<covVars, utilVars, converter, call, h3_map, merged, insertLog, schedule>>

\* the result r of convert_array_window for rectangle i: a failed debug
\* assertion ends the run, otherwise the result is kept for the collect
keep_chunk(i, r) ==
    IF r.panic
    THEN /\ pc' = "panic"
         /\ UNCHANGED <<chunk_h3_maps, insertLog>>
    ELSE /\ chunk_h3_maps' = [chunk_h3_maps EXCEPT ![i] =
                                 [state |-> "done", ok |-> r.ok, map |-> r.map]]
         /\ insertLog' = insertLog \cup { [window |-> i] @@ l : l \in r.log }
         /\ pc' = pc

\* the closure of the map over the work rectangles, for rectangle i
ConvertChunk(i, order) ==
    /\ pc = "chunks"
    /\ chunk_h3_maps[i] = Pending
    /\ keep_chunk(i, convert_array_window(
                         converter.arr,
                         RectAffineTransform(rects[i], converter.transform),
                         AffineInverse(converter.transform),
                         converter.axis_order, converter.nodata_value,
                         call.h3_resolution, call.compact, order))
    /\ schedule' = Append(schedule, [window |-> i, order |-> order])
    /\ UNCHANGED <<covVars, utilVars, converter, call, rects, h3_map, merged>>

\* the conversion of a work rectangle returned Err
ChunkFailed(i) == chunk_h3_maps[i] # Pending /\ ~chunk_h3_maps[i].ok

\* a collect that goes on to combine the results whatever they are
CollectChunksAnyResult ==
    /\ pc = "chunks"
    /\ \/ \A i \in 1 .. Len(rects) : chunk_h3_maps[i] # Pending
       \/ \E i \in 1 .. Len(rects) : ChunkFailed(i)
    /\ pc' = "combine"
    /\ UNCHANGED <<covVars, utilVars, converter, call, rects, chunk_h3_maps, h3_map, merged,
                   insertLog, schedule>>

\* collect::<Result<Vec<_>, _>>()?: the results of all chunks, or the error
\* of a chunk; the error of a chunk ends the iteration, the other chunks
\* may or may not have been converted by then
CollectChunks ==
    /\ pc = "chunks"
    /\ \/ \A i \in 1 .. Len(rects) : chunk_h3_maps[i] # Pending
       \/ \E i \in 1 .. Len(rects) : ChunkFailed(i)
    /\ pc' = IF \E i \in 1 .. Len(rects) : ChunkFailed(i) THEN "err" ELSE "combine"
    /\ UNCHANGED <<covVars, utilVars, converter, call, rects, chunk_h3_maps, h3_map, merged,
                   insertLog, schedule>>

\* one iteration of the loop that combines the chunk maps
CombineChunk ==
    /\ pc = "combine"
    /\ merged < Len(rects)
    /\ h3_map' = combine_chunk(h3_map, chunk_h3_maps[merged + 1].map)
    /\ merged' = merged + 1
    /\ UNCHANGED <<covVars, utilVars, converter, call, pc, rects, chunk_h3_maps, insertLog,
                   schedule>>

\* the result f of finalize_chunk_map is returned: Ok(h3_map) or the error
return_map(f) ==
    /\ h3_map' = f.map
    /\ pc' = IF f.ok THEN "done" ELSE "err"

\* finalize_chunk_map(&mut h3_map, compact)?; Ok(h3_map)
FinalizeMap ==
    /\ pc = "combine"
    /\ merged = Len(rects)
    /\ return_map(finalize_chunk_map(h3_map, call.compact))
    /\ UNCHANGED <<covVars, utilVars, converter, call, rects, chunk_h3_maps, merged, insertLog,
                   schedule>>

ToH3Next ==
    \/ ToH3Begin
    \/ \E i \in 1 .. Len(rects), order \in TilerOrders : ConvertChunk(i, order)
    \/ CollectChunks
    \/ CombineChunk
    \/ FinalizeMap

SpecToH3 == ToH3Init /\ [][ToH3Next]_vars

(***************************************************************************)
(* find_boxes_containing_data as an operation on its inputs: every array   *)
(* of up to MaxElems elements over two values, either value as the nodata  *)
(* value, in both axis orders.                                             *)
(***************************************************************************)
BoxValues == {0, 1}

BoxShapes ==
    { sh \in (0 .. MaxElems) \X (0 .. MaxElems) : sh[1] * sh[2] <= MaxElems }

BoxArrays ==
    UNION { { [shape |-> sh, elems |-> e] :
                e \in [(0 .. (sh[1] - 1)) \X (0 .. (sh[2] - 1)) -> BoxValues] } :
            sh \in BoxShapes }

\* the rows of the array of test_find_boxes_containing_data
test_rows ==
    << <<0, 0, 0, 0, 0, 0, 0, 0, 0, 0, 0, 0>>,
       <<0, 1, 0, 0, 0, 0, 0, 0, 1, 0, 0, 0>>,
       <<0, 1, 1, 0, 0, 0, 0, 1, 1, 1, 0, 0>>,
       <<0, 0, 0, 0, 0, 0, 0, 1, 1, 1, 0, 0>>,
       <<0, 0, 0, 0, 0, 0, 0, 0, 1, 0, 0, 0>>,
       <<0, 0, 0, 0, 0, 0, 0, 0, 0, 0, 0, 0>>,
       <<0, 0, 0, 1, 0, 0, 0, 0, 0, 0, 0, 0>>,
       <<0, 0, 0, 1, 0, 0, 0, 0, 0, 0, 1, 1>>,
       <<0, 0, 0, 1, 1, 0, 0, 0, 0, 0, 1, 1>> >>

\* array![...] of the test: element (i, j) is column j of row i
test_arr ==
    [shape |-> <<Len(test_rows), Len(test_rows[1])>>,
     elems |-> [idx \in (0 .. (Len(test_rows) - 1)) \X (0 .. (Len(test_rows[1]) - 1)) |->
                   test_rows[idx[1] + 1][idx[2] + 1]]]

BoxesInit ==
    /\ CovIdle
    /\ UtilIdle
    /\ converter \in { [arr |-> a, nodata_value |-> Some(n), axis_order |-> o,
                        transform |-> Transform(1, 0, 0, 0, 1, 0)] :
                          a \in BoxArrays \cup {test_arr}, n \in BoxValues,
                          o \in {"XY", "YX"} }
    /\ call = <<>>
    /\ pc = "new"
    /\ rects = <<>>
    /\ chunk_h3_maps = <<>>
    /\ h3_map = EmptyMap
    /\ merged = 0
    /\ insertLog = {}
    /\ schedule = <<>>

\* find_boxes_containing_data(&arr.view(), &nodata_value, axis_order)
FindBoxes ==
    /\ pc = "new"
    /\ rects' = find_boxes_containing_data(converter.arr, FullView(converter.arr),
                                           converter.nodata_value[1],
                                           converter.axis_order)
    /\ pc' = "boxes"
    /\ UNCHANGED <<covVars, utilVars, converter, call, chunk_h3_maps, h3_map, merged, insertLog,
                   schedule>>

BoxesNext == FindBoxes

SpecBoxes == BoxesInit /\ [][BoxesNext]_vars

(***************************************************************************)
(* split_rect_at_antimeridian as an operation on its input: rectangles     *)
(* with longitudes of up to MaxTurns turns around the globe on either side  *)
(* of [-180,180], in steps of 45 degrees, and the longitudes of the tests. *)
(***************************************************************************)
MaxTurns == 2

SplitLongitudes ==
    { 45 * k : k \in (-(8 * MaxTurns + 5)) .. (8 * MaxTurns + 5) }
      \cup {-185, -178, -175, 67, 175, 178, 185}

SplitLatitudes == {12, 23, -30}

\* Rect::new of any two corners
SplitRects ==
    { RectNew(Coord(x1, y1), Coord(x2, y2)) :
        x1 \in SplitLongitudes, x2 \in SplitLongitudes,
        y1 \in SplitLatitudes, y2 \in SplitLatitudes }

SplitInit ==
    /\ CovIdle
    /\ ConvIdle
    /\ ResIdle
    /\ split_input \in SplitRects
    /\ splitted = <<>>

\* let splitted = split_rect_at_antimeridian(rect)
Split ==
    /\ split_input # <<>>
    /\ splitted = <<>>
    /\ splitted' = split_rect_at_antimeridian(split_input)
    /\ UNCHANGED <<covVars, convVars, resVars, split_input>>

SplitNext == Split

SpecSplit == SplitInit /\ [][SplitNext]_vars

(***************************************************************************)
(* nearest_h3_resolution as a state machine: the checks of the shape, then *)
(* one step per pass of the loop over the resolutions.  The area of a      *)
(* pixel is an input; the area of a cell of the finest resolution is two   *)
(* units, a cell of a coarser resolution has the area of its Branch        *)
(* children.                                                               *)
(***************************************************************************)
\* center_of_array.to_cell(h3_res).area_m2()
area_h3_index(res) == 2 * Pow(Branch, NumRes - 1 - res)

\* array shapes: two dimensions, an empty axis, one and three dimensions
SearchShapes == { <<2, 2>>, <<1, 3>>, <<0, 2>>, <<2, 0>>, <<2>>, <<2, 2, 2>> }

SearchModes == {"MinDiff", "SmallerThanPixel"}

\* the areas of a pixel: from nothing to more than a cell of resolution 0
PixelAreas == 0 .. (area_h3_index(0) + 2)

Searches ==
    [shape : SearchShapes, search_mode : SearchModes, area_pixel : PixelAreas,
     center_valid : BOOLEAN]

ResInit ==
    /\ CovIdle
    /\ ConvIdle
    /\ SplitIdle
    /\ search \in Searches
    /\ res_pc = "new"
    /\ h3_res = 0
    /\ nearest_h3_res = 0
    /\ area_difference = <<>>

\* nearest_h3_resolution up to the loop: the checks of the shape, the
\* center of the array, nearest_h3_res = Resolution::Zero, area_difference
\* = None
NearestBegin ==
    /\ res_pc = "new"
    /\ res_pc' = IF Len(search.shape) # 2 THEN "UnsupportedArrayShape"
                 ELSE IF search.shape[1] = 0 \/ search.shape[2] = 0 THEN "EmptyArray"
                 ELSE IF ~search.center_valid THEN "InvalidLatLng"
                 ELSE "loop"
    /\ h3_res' = 0
    /\ nearest_h3_res' = 0
    /\ area_difference' = <<>>
    /\ UNCHANGED <<covVars, convVars, splitVars, search>>

\* a pass in SmallerThanPixel mode
pass_smaller_than_pixel ==
    IF area_h3_index(h3_res) <= search.area_pixel
    THEN /\ nearest_h3_res' = h3_res
         /\ res_pc' = "ok"
         /\ UNCHANGED <<h3_res, area_difference>>
    ELSE /\ h3_res' = h3_res + 1
         /\ UNCHANGED <<res_pc, nearest_h3_res, area_difference>>

\* a pass in MinDiff mode with the area difference of this pass
pass_min_diff(new_area_difference) ==
    IF area_difference # <<>> /\ area_difference[1] < new_area_difference
    THEN /\ nearest_h3_res' = IF h3_res > 0 THEN h3_res - 1 ELSE 0
         /\ res_pc' = "ok"
         /\ UNCHANGED <<h3_res, area_difference>>
    ELSE /\ area_difference' = <<new_area_difference>>
         /\ h3_res' = h3_res + 1
         /\ UNCHANGED <<res_pc, nearest_h3_res>>

\* one pass of the loop over Resolution::range(Zero, Fifteen); a break
\* leads to Ok(nearest_h3_res)
NearestPass ==
    /\ res_pc = "loop"
    /\ h3_res < NumRes
    /\ IF search.search_mode = "SmallerThanPixel"
       THEN pass_smaller_than_pixel
       ELSE pass_min_diff(IF area_h3_index(h3_res) > search.area_pixel
                          THEN area_h3_index(h3_res) - search.area_pixel
                          ELSE search.area_pixel - area_h3_index(h3_res))
    /\ UNCHANGED <<covVars, convVars, splitVars, search>>

\* the loop ended without a break: Ok(nearest_h3_res)
NearestReturn ==
    /\ res_pc = "loop"
    /\ h3_res = NumRes
    /\ res_pc' = "ok"
    /\ UNCHANGED <<covVars, convVars, splitVars, search, h3_res, nearest_h3_res,
                   area_difference>>

ResNext == NearestBegin \/ NearestPass \/ NearestReturn

SpecRes == ResInit /\ [][ResNext]_vars

(***************************************************************************)
(* Properties of the coverage container                                    *)
(***************************************************************************)
\* the cells stored in a coverage, over all buckets
Stored(c) == UNION { Range(c.cells_by_resolution[r]) : r \in Resolutions }

IsAncestor(a, b) ==
    /\ resolution(a) < resolution(b)
    /\ SubSeq(b, 1, Len(a)) = a

NoAncestorPairs(c) ==
    \A a \in Stored(c), b \in Stored(c) : a # b => ~IsAncestor(a, b)

\* C1: after compact() returned Ok, no two cells stored in the coverage are
\* in an ancestor/descendant relationship.
C1_AncestorExclusive ==
    \A id \in CovIds : lastOp[id] = "compact" => NoAncestorPairs(cov[id])

\* a compacted coverage that received a cell together with one of its
\* ancestors
C1_Witness ==
    \E id \in CovIds :
        /\ lastOp[id] = "compact"
        /\ \E a \in inserted[id], b \in inserted[id] :
               IsAncestor(a, b) /\ resolution(b) = resolution(a) + 2

\* the direct children of a cell
Siblings(p) == { Append(p, d) : d \in Digits }

NoCompleteSiblingGroup(c) ==
    \A s \in Stored(c) :
        resolution(s) > 0 =>
            ~(Siblings(parent(s, resolution(s) - 1)) \subseteq Stored(c))

\* C2: after compact() returned Ok, no parent has its complete set of
\* children stored in the coverage.
C2_SiblingsReplaced ==
    \A id \in CovIds : lastOp[id] = "compact" => NoCompleteSiblingGroup(cov[id])

\* a compacted coverage that received a complete sibling group whose parent
\* completed a sibling group in turn: the base cell is what is stored
C2_Witness ==
    \E id \in CovIds :
        /\ lastOp[id] = "compact"
        /\ \E p \in CovCells :
               /\ resolution(p) = 1
               /\ Siblings(p) \subseteq inserted[id]
               /\ parent(p, 0) \in Stored(cov[id])

\* C3: compacting a coverage that was just compacted leaves the cells of
\* every resolution bucket unchanged.
C3_CompactIdempotent ==
    \A id \in CovIds :
        lastOp[id] = "compact" =>
            /\ compact(cov[id]).ok
            /\ compact(cov[id]).cov.cells_by_resolution = cov[id].cells_by_resolution

\* a compacted coverage in which compaction replaced or removed a cell
C3_Witness ==
    \E id \in CovIds :
        /\ lastOp[id] = "compact"
        /\ Stored(cov[id]) # {}
        /\ ~(inserted[id] \subseteq Stored(cov[id]))

\* c itself or an ancestor of c is stored in the bucket of its resolution
StoredSelfOrAncestor(c, cell) ==
    \E r \in Resolutions :
        \E s \in Range(c.cells_by_resolution[r]) :
            /\ resolution(s) = r
            /\ s = cell \/ IsAncestor(s, cell)

\* C4: every cell put into a coverage is covered by it, before and after
\* any compact/finalize call, and covers(c) is true exactly when c or one of
\* its ancestors is stored in the bucket of its resolution.
C4_CoversInserted ==
    \A id \in CovIds :
        /\ \A c \in inserted[id] : covers(cov[id], c)
        /\ \A c \in CovCells : covers(cov[id], c) <=> StoredSelfOrAncestor(cov[id], c)

\* a compacted coverage that no longer stores a cell it received
C4_Witness ==
    \E id \in CovIds :
        /\ lastOp[id] \in {"compact", "finalize_compact", "finalize_dedup"}
        /\ \E c \in inserted[id] :
               c \notin Stored(cov[id]) /\ covers(cov[id], c)

\* C5: after finalize(compact) returned Ok, no bucket holds a cell twice and
\* bucket r holds cells of resolution r only.
C5_FinalizedBuckets ==
    \A id \in CovIds :
        lastOp[id] \in {"finalize_compact", "finalize_dedup"} =>
            \A r \in Resolutions :
                LET v == cov[id].cells_by_resolution[r]
                IN  /\ Cardinality(Range(v)) = Len(v)
                    /\ \A c \in Range(v) : resolution(c) = r

\* a coverage finalized without compaction that received a cell more than
\* once, with another cell in between
C5_Witness ==
    /\ lastOp[1] = "finalize_dedup"
    /\ inserted[2] = {}
    /\ Stored(cov[2]) = {}
    /\ nInserts = MaxInserts
    /\ Cardinality(inserted[1]) = 2
    /\ Cardinality(Stored(cov[1])) = 2

(***************************************************************************)
(* Properties of to_h3                                                     *)
(***************************************************************************)
\* the array element at the x and y position of a pixel
ElemAtXY(x, y) ==
    converter.arr.elems[IF converter.axis_order = "XY" THEN <<x, y>> ELSE <<y, x>>]

XSize == converter.arr.shape[x_axis(converter.axis_order)]
YSize == converter.arr.shape[y_axis(converter.axis_order)]

InArray(at) == at.x >= 0 /\ at.x < XSize /\ at.y >= 0 /\ at.y < YSize

\* the values of the pixels that contain the centroid of a cell, with the
\* longitude of the centroid taken modulo 360 degrees
PixelValues(cell) ==
    { ElemAtXY(at.x, at.y) :
        at \in { t \in { TransformedFloor(cell, turn, AffineInverse(converter.transform)) :
                           turn \in {-360, 0, 360} } : InArray(t) } }

\* the cells of the requested resolution covered by a coverage
Expanded(c) == UNION { children(s, call.h3_resolution) : s \in Stored(c) }

\* C6: in the returned mapping every cell stored under v is at the
\* requested resolution (or coarser with compact=true) and v is the value of
\* the pixel that contains the centroid of the cell (of each of its
\* descendants at the requested resolution).
C6_CentroidValue ==
    pc = "done" =>
        \A v \in DOMAIN h3_map :
            \A s \in Stored(h3_map[v]) :
                /\ resolution(s) <= call.h3_resolution
                /\ ~call.compact => resolution(s) = call.h3_resolution
                /\ \A c \in children(s, call.h3_resolution) : v \in PixelValues(c)

\* C7: a cell whose offset and inverse-transformed centroid is outside of
\* the array, or whose pixel holds the nodata value, is never inserted, and
\* the nodata value is not a key of the returned mapping.
C7_OutsideNeverInserted ==
    /\ \A l \in insertLog :
           /\ InArray(l.at)
           /\ Some(ElemAtXY(l.at.x, l.at.y)) # converter.nodata_value
    /\ pc = "done" /\ converter.nodata_value # NoValue =>
           converter.nodata_value[1] \notin DOMAIN h3_map

LongitudeSpan ==
    LET Abs(n) == IF n < 0 THEN -n ELSE n
    IN  Abs(converter.transform.a) * XSize + Abs(converter.transform.b) * YSize

RECURSIVE combine_all(_, _)
combine_all(maps, n) ==
    IF n = 0 THEN EmptyMap ELSE combine_chunk(combine_all(maps, n - 1), maps[n])

SequentialResult ==
    LET inv == AffineInverse(converter.transform)
        rs == rects_with_data(converter.arr, converter.axis_order,
                              converter.nodata_value,
                              rect_size(converter.arr, converter.axis_order))
        chunks == [i \in 1 .. Len(rs) |->
                      convert_array_window(converter.arr,
                          RectAffineTransform(rs[i], converter.transform), inv,
                          converter.axis_order, converter.nodata_value,
                          call.h3_resolution, call.compact, "ascending").map]
                    @@ <<>>
    IN  finalize_chunk_map(combine_all(chunks, Len(rs)), call.compact)

IsSortedVec(v) == \A i \in 1 .. (Len(v) - 1) : CellLess(v[i], v[i + 1])

\* C9: whatever the order in which the work rectangles are processed and
\* the cells of a rectangle are inserted, the returned mapping is the one of
\* the sequential run: the same cells in the same buckets in the same
\* sorted order.
C9_ScheduleIndependent ==
    pc = "done" =>
        /\ h3_map = SequentialResult.map
        /\ \A v \in DOMAIN h3_map, r \in Resolutions :
               IsSortedVec(h3_map[v].cells_by_resolution[r])

\* a mapping returned after the second work rectangle was processed before
\* the first, with the cells of a rectangle inserted in descending order
C9_Witness ==
    /\ pc = "done"
    /\ Len(schedule) >= 2
    /\ schedule[1].window = 2
    /\ \E i \in 1 .. Len(schedule) : schedule[i].order = "descending"
    /\ \E v \in DOMAIN h3_map : Cardinality(Stored(h3_map[v])) >= 2

(***************************************************************************)
(* Properties of find_boxes_containing_data                                *)
(***************************************************************************)
InBox(rect, x, y) ==
    /\ rect.min.x <= x /\ x <= rect.max.x
    /\ rect.min.y <= y /\ y <= rect.max.y

\* the x and y positions of the elements that differ from the nodata value
DataPositions ==
    { p \in (0 .. (XSize - 1)) \X (0 .. (YSize - 1)) :
        Some(ElemAtXY(p[1], p[2])) # converter.nodata_value }

\* C10: every element that differs from the nodata value lies inside one of
\* the rectangles of find_boxes_containing_data, bounds included, and an
\* array of nodata only yields no rectangle.
C10_BoxesCoverData ==
    pc = "boxes" =>
        /\ \A p \in DataPositions :
               \E i \in 1 .. Len(rects) : InBox(rects[i], p[1], p[2])
        /\ DataPositions = {} => rects = <<>>

\* an array with data in two separate places and nodata in between
C10_Witness ==
    /\ pc = "boxes"
    /\ Len(rects) >= 2
    /\ Cardinality(DataPositions) >= 3
    /\ Cardinality(DataPositions) < XSize * YSize

\* the number of elements of a rectangle with inclusive bounds
BoxArea(rect) == (rect.max.x - rect.min.x + 1) * (rect.max.y - rect.min.y + 1)

RECURSIVE SumAreas(_, _)
SumAreas(rs, n) == IF n = 0 THEN 0 ELSE SumAreas(rs, n - 1) + BoxArea(rs[n])

n_elements == XSize * YSize

n_elements_in_boxes == SumAreas(rects, Len(rects))

BoxesDisjoint ==
    \A i \in 1 .. Len(rects), j \in 1 .. Len(rects) :
        i # j => \/ rects[i].max.x < rects[j].min.x \/ rects[j].max.x < rects[i].min.x
                 \/ rects[i].max.y < rects[j].min.y \/ rects[j].max.y < rects[i].min.y

BoxesInsideArray ==
    \A i \in 1 .. Len(rects) :
        /\ 0 <= rects[i].min.x /\ rects[i].max.x < XSize
        /\ 0 <= rects[i].min.y /\ rects[i].max.y < YSize

\* C11 as stated: whenever more than half of the elements are nodata, the
\* total area of the rectangles is strictly less than half the number of
\* elements of the array.
C11_AreaBelowHalf ==
    pc = "boxes" /\ 2 * (n_elements - Cardinality(DataPositions)) > n_elements =>
        2 * n_elements_in_boxes < n_elements

\* C11 as the code has it: the rectangles are pairwise disjoint and lie
\* inside the array, so their total area is at most the number of elements
\* of the array; for the array of the test with nodata 0 the total area is
\* strictly less than half the number of elements.
C11_AreaBounded ==
    pc = "boxes" =>
        /\ BoxesDisjoint
        /\ BoxesInsideArray
        /\ n_elements_in_boxes <= n_elements
        /\ converter.arr = test_arr /\ converter.nodata_value = Some(0) =>
               2 * n_elements_in_boxes < n_elements

\* the rectangles of the array of the test, in the axis order of the test
C11_Witness ==
    /\ pc = "boxes"
    /\ converter.arr = test_arr
    /\ converter.nodata_value = Some(0)
    /\ converter.axis_order = "YX"
    /\ Len(rects) >= 4
    /\ n_elements_in_boxes > 0

(***************************************************************************)
(* Properties of split_rect_at_antimeridian                                *)
(***************************************************************************)
\* C12 as stated: a rectangle with -180 <= min-x < max-x <= 180 is returned
\* as one piece, equal to the rectangle, with offset 0.
C12_WithinRangeUnsplit ==
    /\ splitted # <<>>
    /\ -180 <= split_input.min.x
    /\ split_input.min.x < split_input.max.x
    /\ split_input.max.x <= 180
    => splitted = << SplittedRect(split_input, 0) >>

\* C12 as the code has it: a rectangle with -180 <= min-x < max-x < 180 is
\* returned as one piece, equal to the rectangle, with offset 0; a max-x of
\* 180 is normalized to -180 and the rectangle is split.
C12_BelowUpperBoundUnsplit ==
    /\ splitted # <<>>
    /\ -180 <= split_input.min.x
    /\ split_input.min.x < split_input.max.x
    /\ split_input.max.x < 180
    => splitted = << SplittedRect(split_input, 0) >>

\* the rectangle of test_split_rect_at_antimeridian_not_crossing was split
C12_Witness ==
    /\ splitted = << SplittedRect(RectNew(Coord(45, 12), Coord(67, 23)), 0) >>
    /\ split_input = RectNew(Coord(45, 12), Coord(67, 23))

min_x_normalized == normalize_longitude(split_input.min.x)
max_x_normalized == normalize_longitude(split_input.max.x)

\* C13: a rectangle whose normalized min-x is not smaller than its
\* normalized max-x is returned as two pieces: first the rectangle between
\* -180 and the normalized max-x with offset normalized max-x - max-x, then
\* the rectangle from the normalized min-x to 180 with offset normalized
\* min-x - min-x, both with the y-range of the input; the rectangles of the
\* two tests give the pieces the tests expect.
C13_TwoPieces ==
    splitted # <<>> =>
        /\ min_x_normalized >= max_x_normalized =>
               /\ Len(splitted) = 2
               /\ {splitted[1].rect.min.x, splitted[1].rect.max.x} = {-180, max_x_normalized}
               /\ max_x_normalized >= -180 => splitted[1].rect.min.x = -180
               /\ splitted[1].difference_due_to_antimeridian_split
                      = max_x_normalized - split_input.max.x
               /\ splitted[2].rect.min.x = min_x_normalized
               /\ splitted[2].rect.max.x = 180
               /\ splitted[2].difference_due_to_antimeridian_split
                      = min_x_normalized - split_input.min.x
               /\ \A i \in 1 .. 2 :
                      /\ splitted[i].rect.min.y = split_input.min.y
                      /\ splitted[i].rect.max.y = split_input.max.y
        /\ split_input = RectNew(Coord(-185, 12), Coord(-178, 23)) =>
               splitted = << SplittedRect(RectNew(Coord(-180, 12), Coord(-178, 23)), 0),
                             SplittedRect(RectNew(Coord(175, 12), Coord(180, 23)), 360) >>
        /\ split_input = RectNew(Coord(185, 12), Coord(178, 23)) =>
               splitted = << SplittedRect(RectNew(Coord(-180, 12), Coord(-175, 23)), -360),
                             SplittedRect(RectNew(Coord(178, 12), Coord(180, 23)), 0) >>

\* the rectangle of test_split_rect_at_antimeridian_upper was split
C13_Witness ==
    /\ split_input = RectNew(Coord(185, 12), Coord(178, 23))
    /\ Len(splitted) = 2
    /\ splitted[1].difference_due_to_antimeridian_split = -360

\* C14: for every piece of a split rectangle and every longitude x inside
\* the x-range of the piece, x plus the offset of the piece lies inside the
\* x-range of the rectangle that was split.
C14_OffsetUndoesNormalization ==
    \A i \in 1 .. Len(splitted) :
        \A x \in splitted[i].rect.min.x .. splitted[i].rect.max.x :
            LET original == x + splitted[i].difference_due_to_antimeridian_split
            IN  split_input.min.x <= original /\ original <= split_input.max.x

(***************************************************************************)
(* Properties of the error handling of to_h3                               *)
(***************************************************************************)
\* C15: when the conversion of a chunk failed, to_h3 does not combine or
\* return a mapping, and a chunk result is appended to the combined mapping
\* only after every chunk was converted successfully.
C15_NoPartialResult ==
    pc \in {"chunks", "combine", "done", "err", "panic"} =>
        /\ (\E i \in 1 .. Len(rects) : ChunkFailed(i)) =>
               /\ pc \in {"chunks", "err", "panic"}
               /\ merged = 0
               /\ h3_map = EmptyMap
        /\ merged > 0 \/ h3_map # EmptyMap \/ pc \in {"combine", "done"} =>
               \A i \in 1 .. Len(rects) :
                   chunk_h3_maps[i] # Pending /\ chunk_h3_maps[i].ok

\* to_h3 returned the error of a chunk after another chunk was converted
\* to a mapping with cells
C15_Witness ==
    /\ pc = "err"
    /\ h3_map = EmptyMap
    /\ \E i \in 1 .. Len(rects) : ChunkFailed(i)
    /\ \E i \in 1 .. Len(rects) :
           /\ chunk_h3_maps[i] # Pending
           /\ chunk_h3_maps[i].ok
           /\ chunk_h3_maps[i].map # EmptyMap

(***************************************************************************)
(* Properties of nearest_h3_resolution                                     *)
(***************************************************************************)
Abs(n) == IF n < 0 THEN -n ELSE n

\* the scan over the resolutions ends without a decision
Undecided ==
    IF search.search_mode = "SmallerThanPixel"
    THEN \A r \in Resolutions : area_h3_index(r) > search.area_pixel
    ELSE \A r \in Resolutions :
             r > 0 => ~(Abs(area_h3_index(r - 1) - search.area_pixel)
                          < Abs(area_h3_index(r) - search.area_pixel))

\* C16: when the scan over the resolutions ends without a decision, in
\* either search mode, nearest_h3_resolution returns the last resolution of
\* the scan.
C16_LastResolutionReturned ==
    res_pc = "ok" /\ Undecided => nearest_h3_res = NumRes - 1

(***************************************************************************)
(* Properties of the work rectangles of to_h3                              *)
(***************************************************************************)
\* to_h3 has computed its work rectangles
HasWorkRects == pc \notin {"idle", "new"} /\ AffineInverse(converter.transform) # NoTransform

\* the pixel at x, y is in the half-open pixel range of a rectangle
InWorkRect(rect, x, y) ==
    /\ rect.min.x <= x /\ x < rect.max.x
    /\ rect.min.y <= y /\ y < rect.max.y

\* C17: with a nodata value, every pixel that differs from the nodata value
\* lies in the half-open pixel range of a work rectangle of to_h3.
C17_WorkRectsCoverData ==
    HasWorkRects /\ converter.nodata_value # NoValue =>
        \A p \in DataPositions :
            \E i \in 1 .. Len(rects) : InWorkRect(rects[i], p[1], p[2])

(***************************************************************************)
(* Properties of finalize without compaction                               *)
(***************************************************************************)
\* the cells of a set that have no ancestor in the set
WithoutCovered(cells) ==
    { c \in cells : \A a \in cells : ~IsAncestor(a, c) }

\* C18 as stated: finalize(false) removes exact duplicates only, the cells
\* stored in the coverage before the call are the cells stored after it.
C18_FinalizeKeepsCovered ==
    [][\A id \in CovIds :
          lastOp'[id] = "finalize_dedup" => Stored(cov'[id]) = Stored(cov[id])]_vars

\* C18 as the code has it: finalize(false) removes the exact duplicates and
\* every cell that has an ancestor stored in the coverage, and nothing
\* else: complete groups of siblings stay as they are.
C18_FinalizeRemovesCovered ==
    [][\A id \in CovIds :
          lastOp'[id] = "finalize_dedup" =>
              /\ Stored(cov'[id]) = WithoutCovered(Stored(cov[id]))
              /\ \A r \in Resolutions :
                     Cardinality(Range(cov'[id].cells_by_resolution[r]))
                       = Len(cov'[id].cells_by_resolution[r])]_vars

\* a coverage finalized without compaction that received a complete group
\* of siblings and a child of one of them: the siblings are stored, the
\* child is not
C18_Witness ==
    \E id \in CovIds :
        /\ lastOp[id] = "finalize_dedup"
        /\ nInserts = MaxInserts
        /\ \E p \in CovCells :
               /\ Siblings(p) \subseteq Stored(cov[id])
               /\ \E b \in inserted[id] :
                      /\ b \notin Stored(cov[id])
                      /\ \E a \in Siblings(p) : IsAncestor(a, b)

\* the half-open pixel ranges of two rectangles have a pixel in common
WorkRectsOverlap(r1, r2) ==
    /\ Max(r1.min.x, r2.min.x) < Min(r1.max.x, r2.max.x)
    /\ Max(r1.min.y, r2.min.y) < Min(r1.max.y, r2.max.y)

\* C19: the half-open pixel ranges of the work rectangles of to_h3 are
\* pairwise disjoint, with and without a nodata value.
C19_WorkRectsDisjoint ==
    HasWorkRects =>
        \A i \in 1 .. Len(rects), j \in 1 .. Len(rects) :
            i # j => ~WorkRectsOverlap(rects[i], rects[j])

\* C20: every piece of a split rectangle has its min-x and its max-x within
\* [-180,180], as the debug assertions of convert_array_window require, and
\* normalize_longitude maps the bounds of the rectangle into [-180,180).
C20_PiecesInRange ==
    splitted # <<>> =>
        /\ \A i \in 1 .. Len(splitted) : PieceInRange(splitted[i])
        /\ -180 <= min_x_normalized /\ min_x_normalized < 180
        /\ -180 <= max_x_normalized /\ max_x_normalized < 180

\* the cells of a sequence are pairwise different
NoRepeats(s) == \A i, j \in 1 .. Len(s) : s[i] = s[j] => i = j

\* the coverage was compacted by its last call
JustCompacted(id) == lastOp[id] \in {"compact", "finalize_compact"}

\* every cell put into the coverage has the resolution r
OnlyResolution(id, r) ==
    inserted[id] # {} /\ \A c \in inserted[id] : resolution(c) = r

\* C21: when only cells of one resolution r were put into a coverage, by
\* insert and append calls and with repetitions, then after compact() the
\* sequence of uncompacted_iter(r) holds exactly the distinct cells put in,
\* each of them once; and for every target resolution uncompacted_iter
\* yields cells of that resolution only, each below or equal to a cell of a
\* bucket that is not finer than the target, so that the cells of the finer
\* buckets are not produced.
C21_CompactExpandLossless ==
    \A id \in CovIds :
        /\ \A r \in Resolutions :
               JustCompacted(id) /\ OnlyResolution(id, r) =>
                   /\ Range(uncompacted_iter(cov[id], r)) = inserted[id]
                   /\ NoRepeats(uncompacted_iter(cov[id], r))
        /\ \A t \in Resolutions :
               \A c \in Range(uncompacted_iter(cov[id], t)) :
                   /\ resolution(c) = t
                   /\ \E q \in 0 .. t :
                          parent(c, q) \in Range(cov[id].cells_by_resolution[q])

\* a batch of more than Branch cells of the finest resolution was compacted
\* into a coarser bucket and is expanded again, while a finer bucket than
\* some target holds cells
C21_Witness ==
    /\ JustCompacted(1)
    /\ OnlyResolution(1, NumRes - 1)
    /\ Cardinality(inserted[1]) > Branch
    /\ cov[1].cells_by_resolution[NumRes - 1] = <<>>
    /\ Range(uncompacted_iter(cov[1], NumRes - 1)) = inserted[1]
    /\ cov[2].cells_by_resolution[NumRes - 1] # <<>>
    /\ uncompacted_iter(cov[2], 0) = <<>>

====
